---- MODULE Spec2Model ----
(***************************************************************************)
(* A model of the agent messaging system of src/agent_messaging.py: the    *)
(* Message envelope and its JSON codec, the NATS subject scheme, the       *)
(* AgentMessageQueue (Agent Inbox Processor), the MessageRouter and the    *)
(* MessageViewer, over a model of the NATS bus (subscriptions with their   *)
(* own pending queues, wildcard subject matching, connections that can be  *)
(* closed).                                                                *)
(*                                                                         *)
(* Strings are sequences of one-character strings, so that the code's      *)
(* string operations (f-string concatenation, startswith, replace,         *)
(* slicing) are computed as the code computes them.                        *)
(***************************************************************************)
EXTENDS Integers, Sequences, FiniteSets, TLC

(***************************************************************************)
(* Bounds of the model.                                                    *)
(***************************************************************************)
\* the clock readings are 0..MaxClock
MaxClock == 1
\* publishes made on the bus in one behaviour
MaxPub == 6
\* calls made from outside in one behaviour: the methods of the three
\* classes, payloads of other clients of the bus, connections lost
MaxCalls == 3

(***************************************************************************)
(* Strings.                                                                *)
(***************************************************************************)
\* Python's None: a one-element sequence whose element is no character, so
\* that it differs from every string and can be compared with strings.
None == <<"<None>">>

Dot == <<".">>

\* str.startswith
StartsWith(s, p) == Len(s) >= Len(p) /\ SubSeq(s, 1, Len(p)) = p

\* str.replace(old, new), old not empty: every non-overlapping occurrence,
\* scanning from the left
RECURSIVE Replace(_, _, _)
Replace(s, old, new) ==
    IF Len(s) < Len(old) THEN s
    ELSE IF StartsWith(s, old)
         THEN new \o Replace(SubSeq(s, Len(old) + 1, Len(s)), old, new)
         ELSE <<Head(s)>> \o Replace(Tail(s), old, new)

\* s[:n]
Slice(s, n) == SubSeq(s, 1, IF Len(s) < n THEN Len(s) ELSE n)

\* decimal digits of a natural number, as str() prints it
DigitChar(d) == <<"0", "1", "2", "3", "4", "5", "6", "7", "8", "9">>[d + 1]

RECURSIVE Str(_)
Str(n) == IF n < 10 THEN <<DigitChar(n)>> ELSE Str(n \div 10) \o <<DigitChar(n % 10)>>

(***************************************************************************)
(* Module constants of agent_messaging.py.                                 *)
(***************************************************************************)
NATS_NAMESPACE == <<"t","h","e","m","u","l","t","i","v","e","r","s","e">>

AGENT_PREFIX == <<"a","g","e","n","t","_">>

(***************************************************************************)
(* The subject scheme: the f-strings that build the topics.                *)
(***************************************************************************)
InboxSubject(ns, agent) ==
    ns \o Dot \o <<"a","g","e","n","t","s">> \o Dot \o agent \o Dot \o <<"i","n","b","o","x">>

OutboxSubject(ns, agent) ==
    ns \o Dot \o <<"a","g","e","n","t","s">> \o Dot \o agent \o Dot \o <<"o","u","t","b","o","x">>

DmSubject(ns, user) ==
    ns \o Dot \o <<"m","e","s","s","a","g","e","s">> \o Dot \o <<"d","m">> \o Dot \o user

AllSubject(ns) ==
    ns \o Dot \o <<"m","e","s","s","a","g","e","s">> \o Dot \o <<"a","l","l">>

\* the three wildcard patterns of MessageViewer.start_viewing
ViewMessagesPattern(ns) == ns \o Dot \o <<"m","e","s","s","a","g","e","s">> \o Dot \o <<">">>

\* an inbox pattern without the wildcard token
ViewInboxPatternNoWildcard(ns) ==
    ns \o Dot \o <<"a","g","e","n","t","s">> \o Dot \o <<"i","n","b","o","x">>

ViewInboxPattern(ns) ==
    ns \o Dot \o <<"a","g","e","n","t","s">> \o Dot \o <<"*">> \o Dot \o <<"i","n","b","o","x">>

ViewOutboxPattern(ns) ==
    ns \o Dot \o <<"a","g","e","n","t","s">> \o Dot \o <<"*">> \o Dot \o <<"o","u","t","b","o","x">>

\* the destination of send_message: the branch on the agent prefix
DestSubject(ns, to_user) ==
    IF StartsWith(to_user, AGENT_PREFIX)
    THEN InboxSubject(ns, Replace(to_user, AGENT_PREFIX, <<>>))
    ELSE DmSubject(ns, to_user)

(***************************************************************************)
(* NATS subject matching: subjects are split into tokens at the dots; "*"  *)
(* matches exactly one token, ">" as the last token matches one or more.   *)
(***************************************************************************)
RECURSIVE TokensFrom(_, _, _)
TokensFrom(s, i, token) ==
    IF i > Len(s) THEN <<token>>
    ELSE IF s[i] = "." THEN <<token>> \o TokensFrom(s, i + 1, <<>>)
    ELSE TokensFrom(s, i + 1, Append(token, s[i]))

Tokens(s) == TokensFrom(s, 1, <<>>)

RECURSIVE TokensMatch(_, _)
TokensMatch(pat, subj) ==
    IF pat = <<>> THEN subj = <<>>
    ELSE IF Head(pat) = <<">">> /\ Len(pat) = 1 THEN Len(subj) >= 1
    ELSE IF subj = <<>> THEN FALSE
    ELSE (Head(pat) = <<"*">> \/ Head(pat) = Head(subj)) /\ TokensMatch(Tail(pat), Tail(subj))

SubjectMatches(pattern, subject) == TokensMatch(Tokens(pattern), Tokens(subject))

(***************************************************************************)
(* The envelope and its codec.                                             *)
(***************************************************************************)
\* the dataclass Message; message_type and thread_id have defaults
MessageFields == <<"id", "from_user", "to_user", "content", "timestamp", "message_type", "thread_id">>

RequiredFields == {"id", "from_user", "to_user", "content", "timestamp"}

DefaultMessageType == <<"d","m">>

Message(id, from_user, to_user, content, timestamp, message_type, thread_id) ==
    [id |-> id, from_user |-> from_user, to_user |-> to_user, content |-> content,
     timestamp |-> timestamp, message_type |-> message_type, thread_id |-> thread_id]

\* Message.to_dict: asdict, the fields in their order
to_dict(m) == [i \in 1..Len(MessageFields) |-> <<MessageFields[i], m[MessageFields[i]]>>]

\* the JSON text of a value: a string in double quotes with " and \ escaped
\* and a line feed written as \n, None as null
RECURSIVE JsonEscape(_)
JsonEscape(s) ==
    IF s = <<>> THEN <<>>
    ELSE (IF Head(s) \in {"\"", "\\"} THEN <<"\\", Head(s)>>
          ELSE IF Head(s) = "\n" THEN <<"\\", "n">>
          ELSE <<Head(s)>>)
         \o JsonEscape(Tail(s))

\* a JSON text that escapes nothing
JsonValueNoEscape(v) ==
    IF v = None THEN <<"n","u","l","l">> ELSE <<"\"">> \o v \o <<"\"">>

JsonValue(v) ==
    IF v = None THEN <<"n","u","l","l">> ELSE <<"\"">> \o JsonEscape(v) \o <<"\"">>

\* json.dumps(...).encode(): a payload is JSON text (an object as its
\* sequence of key/value members) or bytes that json.loads rejects
json_dumps(d) == [kind |-> "object", members |-> [i \in 1..Len(d) |-> <<d[i][1], JsonValue(d[i][2])>>]]

InvalidPayload == [kind |-> "invalid", members |-> <<>>]

\* json.loads of the text of a string from its i-th character on: the
\* character after a backslash is taken as it is, n as a line feed
RECURSIVE JsonUnescapeFrom(_, _)
JsonUnescapeFrom(s, i) ==
    IF i > Len(s) THEN <<>>
    ELSE IF s[i] = "\\" /\ i < Len(s)
         THEN <<IF s[i + 1] = "n" THEN "\n" ELSE s[i + 1]>> \o JsonUnescapeFrom(s, i + 2)
    ELSE <<s[i]>> \o JsonUnescapeFrom(s, i + 1)

\* (a text without backslash is its own value)
JsonUnescape(s) ==
    IF SelectSeq(s, LAMBDA c : c = "\\") = <<>> THEN s ELSE JsonUnescapeFrom(s, 1)

JsonParseValue(t) ==
    IF t = <<"n","u","l","l">> THEN None ELSE JsonUnescape(SubSeq(t, 2, Len(t) - 1))

\* json.loads of an object: a dict, the last member of a key wins
DictKeys(p) == {p.members[i][1] : i \in 1..Len(p.members)}

DictGet(p, k) ==
    LET found == {i \in 1..Len(p.members) : p.members[i][1] = k}
        last == CHOOSE i \in found : \A j \in found : j <= i
    IN  IF found = {} THEN None ELSE JsonParseValue(p.members[last][2])

\* a decoding that takes every JSON object for an envelope
DecodesAnyObject(p) == p.kind = "object"

\* json.loads followed by Message.from_dict (cls(**data)): raises on bytes
\* that are no JSON object, on an unknown key and on a missing required field
Decodes(p) ==
    /\ p.kind = "object"
    /\ DictKeys(p) \subseteq {MessageFields[i] : i \in 1..Len(MessageFields)}
    /\ RequiredFields \subseteq DictKeys(p)

from_dict(p) ==
    Message(DictGet(p, "id"), DictGet(p, "from_user"), DictGet(p, "to_user"),
            DictGet(p, "content"), DictGet(p, "timestamp"),
            IF "message_type" \in DictKeys(p) THEN DictGet(p, "message_type") ELSE DefaultMessageType,
            IF "thread_id" \in DictKeys(p) THEN DictGet(p, "thread_id") ELSE None)

Encode(m) == json_dumps(to_dict(m))

(***************************************************************************)
(* The components and the inputs of the calls.                             *)
(***************************************************************************)
roy == <<"r","o","y">>

sylvia == <<"s","y","l","v","i","a">>

alice == <<"a","l","i","c","e">>

hi == <<"h","i">>

\* a content of 51 characters, one more than the default handler echoes
digits == <<"0","1","2","3","4","5","6","7","8","9">>

long == digits \o digits \o digits \o digits \o digits \o <<"x">>

\* the personas an AgentMessageQueue is constructed for
Personas == {roy, sylvia}

\* the MessageRouter and the MessageViewer: one-element sequences that are
\* no strings, so that they differ from every persona
Router == <<"MessageRouter">>

Viewer == <<"MessageViewer">>

Comps == Personas \cup {Router, Viewer}

\* arguments of send_dm: <<from_user, to_agent, content>>
DmArgs == {<<alice, roy, hi>>, <<AGENT_PREFIX \o sylvia, roy, long>>, <<AGENT_PREFIX \o roy, sylvia, hi>>}

\* arguments of send_message called from outside: <<agent, to_user, content, thread_id>>
SendArgs == {<<roy, alice, hi, None>>, <<roy, AGENT_PREFIX \o sylvia, hi, <<"t">> >>}

\* payloads another client of the bus publishes: bytes that are no JSON, an
\* object without the required field content, and an envelope whose
\* from_user is null
MissingContent ==
    [kind |-> "object",
     members |-> << <<"id", JsonValue(<<"x">>)>>, <<"from_user", JsonValue(alice)>>,
                    <<"to_user", JsonValue(AGENT_PREFIX \o roy)>>,
                    <<"timestamp", JsonValue(<<"0">>)>> >>]

NullSender ==
    Encode(Message(<<"y">>, None, AGENT_PREFIX \o roy, hi, <<"0">>, DefaultMessageType, None))

\* <<subject, payload>>
RawPublishes ==
    {<<InboxSubject(NATS_NAMESPACE, roy), InvalidPayload>>,
     <<InboxSubject(NATS_NAMESPACE, roy), NullSender>>,
     <<AllSubject(NATS_NAMESPACE), MissingContent>>}

\* the components whose connection the bus loses
Lossy == {Router}

(***************************************************************************)
(* The state.                                                              *)
(***************************************************************************)
VARIABLES
    clock,      \* the last reading of datetime.utcnow()
    nc,         \* nc[c]: self.nc of component c: 0 is None, k > 0 the k-th connection c made
    open,       \* open[c]: the connections of c that are not closed
    subs,       \* subs[c]: the subscriptions of c on the bus, in the order they were made
    npub,       \* the publishes made so far; a publish is named by its number
    history,    \* MessageRouter.message_history
    messages,   \* MessageViewer.messages
    dm,         \* the send_dm calls, in the order they were invoked
    sm,         \* the send_message calls, in the order they were invoked
    handled,    \* handled[p]: the publishes the message_handler of p was invoked for, in order
    fed,        \* the publishes the callback of subscribe_all_messages was invoked for
    errors,     \* errors[c]: the publishes for which a subscription callback of c logged an error
    topics,     \* the subjects built so far, when the subject scheme is run on its own
    trips,      \* the Messages encoded and decoded so far, when the codec is run on its own
    ncalls      \* the calls made from outside so far

vars == <<clock, nc, open, subs, npub, history, messages, dm, sm, handled, fed, errors, topics, trips, ncalls>>

\* a subscription: its connection, the subject pattern, the pending queue of
\* <<publish number, payload>> and, for an inbox callback suspended in the
\* send_message of the default handler, the place of that call in sm (0: the
\* callback is not running)
Subscription(k, pattern) == [conn |-> k, pattern |-> pattern, pending |-> <<>>, busy |-> 0]

\* a send_message call: its arguments, the publish number of the envelope
\* whose handler made it (0: called from outside), where it stands, the
\* Message it built and the publishes <<subject, payload>> it made
SmCall(p, to_user, content, thread_id, via) ==
    [agent |-> p, to_user |-> to_user, content |-> content, thread_id |-> thread_id,
     via |-> via, pc |-> "connect", msg |-> <<>>, pubs |-> <<>>]

\* a send_dm call, likewise
DmCall(from_user, to_agent, content) ==
    [from_user |-> from_user, to_agent |-> to_agent, content |-> content,
     pc |-> "connect", msg |-> <<>>, pubs |-> <<>>]

Init ==
    /\ clock = 0
    /\ nc = [c \in Comps |-> 0]
    /\ open = [c \in Comps |-> {}]
    /\ subs = [c \in Comps |-> <<>>]
    /\ npub = 0
    /\ history = <<>>
    /\ messages = <<>>
    /\ dm = <<>>
    /\ sm = <<>>
    /\ handled = [p \in Personas |-> <<>>]
    /\ fed = <<>>
    /\ errors = [c \in Comps |-> <<>>]
    /\ topics = {}
    /\ trips = <<>>
    /\ ncalls = 0

(***************************************************************************)
(* The bus.                                                                *)
(***************************************************************************)
\* nc.publish on an open connection: the payload joins the pending queue of
\* every subscription whose pattern matches the subject
Deliver(ss, subject, payload, n) ==
    LET tokens == Tokens(subject)
    IN  [c \in Comps |->
            [i \in 1..Len(ss[c]) |->
                IF TokensMatch(Tokens(ss[c][i].pattern), tokens)
                THEN [ss[c][i] EXCEPT !.pending = Append(@, <<n, payload>>)]
                ELSE ss[c][i]]]

\* closing a connection ends its subscriptions: their pending messages are
\* discarded and a callback suspended in them is cancelled
DropConn(ss, c, k) == [ss EXCEPT ![c] = SelectSeq(@, LAMBDA s : s.conn # k)]

CancelCalls(calls, ss, c, k) ==
    [j \in 1..Len(calls) |->
        IF \E i \in 1..Len(ss[c]) : ss[c][i].conn = k /\ ss[c][i].busy = j
        THEN [calls[j] EXCEPT !.pc = "cancelled"]
        ELSE calls[j]]

\* a callback whose failure ends its subscription
LoggedUnsubscribed(ss, c, i) ==
    [ss EXCEPT ![c] = SubSeq(@, 1, i - 1) \o SubSeq(@, i + 1, Len(@))]

\* "except Exception as e: logger.error(...)" of the three message_callback:
\* the callback returns and its subscription goes on
Logged(ss, c, i) == ss

\* nc.publish and nc.subscribe raise on a connection that is closed, and
\* self.nc.publish raises when self.nc is None
Connected(c) == nc[c] \in open[c]

\* the bus loses a connection for good (the client gives up reconnecting)
ConnLost(c, k) ==
    /\ ncalls < MaxCalls
    /\ k \in open[c]
    /\ ncalls' = ncalls + 1
    /\ open' = [open EXCEPT ![c] = @ \ {k}]
    /\ subs' = DropConn(subs, c, k)
    /\ sm' = CancelCalls(sm, subs, c, k)
    /\ UNCHANGED <<clock, nc, npub, history, messages, dm, handled, fed, errors, topics, trips>>

\* another client of the bus publishes a payload that does not decode
PublishRaw(r) ==
    /\ ncalls < MaxCalls
    /\ npub < MaxPub
    /\ ncalls' = ncalls + 1
    /\ npub' = npub + 1
    /\ subs' = Deliver(subs, r[1], r[2], npub + 1)
    /\ UNCHANGED <<clock, nc, open, history, messages, dm, sm, handled, fed, errors, topics, trips>>

(***************************************************************************)
(* connect of the three classes: a new connection replaces self.nc (the    *)
(* old one is not closed), or the attempt fails and self.nc stays.         *)
(***************************************************************************)
Connect(c) ==
    /\ ncalls < MaxCalls
    /\ \/ /\ nc' = [nc EXCEPT ![c] = @ + 1]
          /\ open' = [open EXCEPT ![c] = @ \cup {nc[c] + 1}]
          /\ ncalls' = ncalls + 1
       \/ UNCHANGED <<nc, open, ncalls>>
    /\ UNCHANGED <<clock, subs, npub, history, messages, dm, sm, handled, fed, errors, topics, trips>>

(***************************************************************************)
(* AgentMessageQueue.                                                      *)
(***************************************************************************)
\* start_listening: connects when self.nc is None and returns when that
\* fails; subscribes message_callback to the inbox subject
StartListening(p) ==
    /\ ncalls < MaxCalls
    /\ \/ /\ nc[p] = 0
          /\ nc' = [nc EXCEPT ![p] = 1]
          /\ open' = [open EXCEPT ![p] = @ \cup {1}]
          /\ subs' = [subs EXCEPT ![p] = Append(@, Subscription(1, InboxSubject(NATS_NAMESPACE, p)))]
          /\ ncalls' = ncalls + 1
       \/ /\ nc[p] = 0
          /\ UNCHANGED <<nc, open, subs, ncalls>>
       \/ /\ Connected(p)
          /\ subs' = [subs EXCEPT ![p] = Append(@, Subscription(nc[p], InboxSubject(NATS_NAMESPACE, p)))]
          /\ ncalls' = ncalls + 1
          /\ UNCHANGED <<nc, open>>
       \/ /\ nc[p] # 0 /\ ~Connected(p)
          /\ UNCHANGED <<nc, open, subs, ncalls>>
    /\ UNCHANGED <<clock, npub, history, messages, dm, sm, handled, fed, errors, topics, trips>>

\* a close that also forgets the connection
CloseAndForget(p) ==
    /\ ncalls < MaxCalls
    /\ nc' = [nc EXCEPT ![p] = 0]
    /\ open' = [open EXCEPT ![p] = @ \ {nc[p]}]
    /\ subs' = DropConn(subs, p, nc[p])
    /\ sm' = CancelCalls(sm, subs, p, nc[p])
    /\ ncalls' = IF Connected(p) THEN ncalls + 1 ELSE ncalls
    /\ UNCHANGED <<clock, npub, history, messages, dm, handled, fed, errors, topics, trips>>

\* close: closes the connection self.nc names, if any; self.nc stays. The
\* close of a connection that is closed already returns at once.
Close(p) ==
    /\ ncalls < MaxCalls
    /\ \/ /\ Connected(p)
          /\ open' = [open EXCEPT ![p] = @ \ {nc[p]}]
          /\ subs' = DropConn(subs, p, nc[p])
          /\ sm' = CancelCalls(sm, subs, p, nc[p])
          /\ ncalls' = ncalls + 1
       \/ /\ ~Connected(p)
          /\ UNCHANGED <<open, subs, sm, ncalls>>
    /\ UNCHANGED <<clock, nc, npub, history, messages, dm, handled, fed, errors, topics, trips>>

\* f"msg_{datetime.utcnow().timestamp()}" and datetime.utcnow().isoformat()
MsgId(t) == <<"m","s","g","_">> \o Str(t)

IsoFormat(t) == Str(t)

\* the readings datetime.utcnow() can give after the reading clock
Readings == clock..MaxClock

\* send_message, the Message it builds
AgentMessage(call, t) ==
    Message(MsgId(t), AGENT_PREFIX \o call.agent, call.to_user, call.content, IsoFormat(t),
            DefaultMessageType, call.thread_id)

\* send_message from the construction of the Message to the first publish:
\* the call is then suspended before the outbox publish, or has raised
\* (to_user.startswith on None, or the publish)
SmFirstPublish(call, t, connected) ==
    IF connected /\ call.to_user # None
    THEN LET m == AgentMessage(call, t)
         IN  [call EXCEPT !.pc = "outbox", !.msg = <<m>>,
                          !.pubs = << <<DestSubject(NATS_NAMESPACE, call.to_user), Encode(m)>> >>]
    ELSE [call EXCEPT !.pc = "raised"]

\* send_message from the outbox publish to its return
SmSecondPublish(call, connected) ==
    IF connected
    THEN [call EXCEPT !.pc = "returned",
                      !.pubs = Append(@, <<OutboxSubject(NATS_NAMESPACE, call.agent), Encode(call.msg[1])>>)]
    ELSE [call EXCEPT !.pc = "raised"]

\* the subscriptions after the last publish of a call (none if it raised)
AfterPublish(ss, call) ==
    IF call.pc = "raised" THEN ss
    ELSE Deliver(ss, call.pubs[Len(call.pubs)][1], call.pubs[Len(call.pubs)][2], npub + 1)

\* a call publishes, within the bound, or raises
Published(call) ==
    /\ call.pc # "raised" => npub < MaxPub
    /\ npub' = IF call.pc = "raised" THEN npub ELSE npub + 1

\* the connect awaited by a call that found self.nc None ends, well or not
LazyConnect(c, ok) ==
    /\ nc' = IF ok THEN [nc EXCEPT ![c] = @ + 1] ELSE nc
    /\ open' = IF ok THEN [open EXCEPT ![c] = @ \cup {nc[c] + 1}] ELSE open

\* send_message is called from outside: with self.nc set it runs up to its
\* first publish, with self.nc None it awaits connect
SmInvoke(a) ==
    /\ ncalls < MaxCalls
    /\ ncalls' = ncalls + 1
    /\ IF nc[a[1]] = 0
       THEN /\ sm' = Append(sm, SmCall(a[1], a[2], a[3], a[4], 0))
            /\ UNCHANGED <<subs, npub, clock>>
       ELSE \E t \in Readings :
               LET first == SmFirstPublish(SmCall(a[1], a[2], a[3], a[4], 0), t, Connected(a[1]))
               IN  /\ Published(first)
                   /\ clock' = IF first.pc = "raised" THEN clock ELSE t
                   /\ sm' = Append(sm, first)
                   /\ subs' = AfterPublish(subs, first)
    /\ UNCHANGED <<nc, open, history, messages, dm, handled, fed, errors, topics, trips>>

\* the connect awaited by send_message ends (its result is not looked at),
\* and the call runs up to its first publish
SmConnect(j) ==
    /\ j \in 1..Len(sm)
    /\ sm[j].pc = "connect"
    /\ \E ok \in BOOLEAN, t \in Readings :
          /\ LazyConnect(sm[j].agent, ok)
          /\ LET first == SmFirstPublish(sm[j], t, nc'[sm[j].agent] \in open'[sm[j].agent])
             IN  /\ Published(first)
                 /\ clock' = IF first.pc = "raised" THEN clock ELSE t
                 /\ sm' = [sm EXCEPT ![j] = first]
                 /\ subs' = AfterPublish(subs, first)
    /\ UNCHANGED <<history, messages, dm, handled, fed, errors, topics, trips, ncalls>>

\* a send_message called from outside resumes and publishes to the outbox
SmOutbox(j) ==
    /\ j \in 1..Len(sm)
    /\ sm[j].pc = "outbox"
    /\ sm[j].via = 0
    /\ LET second == SmSecondPublish(sm[j], Connected(sm[j].agent))
       IN  /\ Published(second)
           /\ sm' = [sm EXCEPT ![j] = second]
           /\ subs' = AfterPublish(subs, second)
    /\ UNCHANGED <<clock, nc, open, history, messages, dm, handled, fed, errors, topics, trips, ncalls>>

\* a response that echoes the whole content
ResponseWhole(p, content) ==
    <<"A","g","e","n","t"," ">> \o p
    \o <<" ","r","e","c","e","i","v","e","d"," ","y","o","u","r"," ","m","e","s","s","a","g","e",":"," ","'">>
    \o content \o <<".",".",".","'">>

\* default_message_handler, the response it builds
Response(p, content) ==
    <<"A","g","e","n","t"," ">> \o p
    \o <<" ","r","e","c","e","i","v","e","d"," ","y","o","u","r"," ","m","e","s","s","a","g","e",":"," ","'">>
    \o Slice(content, 50) \o <<".",".",".","'">>

\* message_callback of start_listening takes the next pending payload: it
\* decodes it, logs message.content[:50], invokes the message_handler (the
\* default one) and catches what is raised. The handler calls send_message,
\* which runs up to its first publish.
InboxCallback(p, i) ==
    /\ i \in 1..Len(subs[p])
    /\ subs[p][i].busy = 0
    /\ subs[p][i].pending # <<>>
    /\ LET n == Head(subs[p][i].pending)[1]
           payload == Head(subs[p][i].pending)[2]
           popped == [subs EXCEPT ![p][i].pending = Tail(@)]
       IN  IF ~Decodes(payload) \/ from_dict(payload).content = None
           THEN /\ subs' = Logged(popped, p, i)
                /\ errors' = [errors EXCEPT ![p] = Append(@, n)]
                /\ UNCHANGED <<handled, sm, npub, clock>>
           ELSE /\ handled' = [handled EXCEPT ![p] = Append(@, n)]
                /\ \E t \in Readings :
                      LET message == from_dict(payload)
                          call == SmCall(p, message.from_user, Response(p, message.content),
                                         message.thread_id, n)
                          first == SmFirstPublish(call, t, Connected(p))
                      IN  /\ Published(first)
                          /\ clock' = IF first.pc = "raised" THEN clock ELSE t
                          /\ sm' = Append(sm, first)
                          /\ IF first.pc = "raised"
                             THEN /\ subs' = Logged(popped, p, i)
                                  /\ errors' = [errors EXCEPT ![p] = Append(@, n)]
                             ELSE /\ subs' = AfterPublish([popped EXCEPT ![p][i].busy = Len(sm) + 1], first)
                                  /\ UNCHANGED errors
    /\ UNCHANGED <<nc, open, history, messages, dm, fed, topics, trips, ncalls>>

\* the send_message of the default handler resumes: the outbox publish, then
\* message_callback returns, or catches what the publish raised
InboxCallbackOutbox(p, i) ==
    /\ i \in 1..Len(subs[p])
    /\ subs[p][i].busy # 0
    /\ LET j == subs[p][i].busy
           second == SmSecondPublish(sm[j], Connected(p))
       IN  /\ Published(second)
           /\ sm' = [sm EXCEPT ![j] = second]
           /\ subs' = IF second.pc = "raised"
                      THEN Logged([subs EXCEPT ![p][i].busy = 0], p, i)
                      ELSE AfterPublish([subs EXCEPT ![p][i].busy = 0], second)
           /\ errors' = IF second.pc = "raised" THEN [errors EXCEPT ![p] = Append(@, sm[j].via)] ELSE errors
    /\ UNCHANGED <<clock, nc, open, history, messages, dm, handled, fed, topics, trips, ncalls>>

(***************************************************************************)
(* MessageRouter.                                                          *)
(***************************************************************************)
\* a Message addressed to the bare agent name
DmMessageBareName(call, t) ==
    Message(MsgId(t), call.from_user, call.to_agent, call.content, IsoFormat(t),
            DefaultMessageType, None)

\* send_dm, the Message it builds
DmMessage(call, t) ==
    Message(MsgId(t), call.from_user, AGENT_PREFIX \o call.to_agent, call.content, IsoFormat(t),
            DefaultMessageType, None)

\* send_dm from the construction of the Message to the publish to the inbox
DmFirstPublish(call, t, connected) ==
    IF connected
    THEN LET m == DmMessage(call, t)
         IN  [call EXCEPT !.pc = "append", !.msg = <<m>>,
                          !.pubs = << <<InboxSubject(NATS_NAMESPACE, call.to_agent), Encode(m)>> >>]
    ELSE [call EXCEPT !.pc = "raised"]

\* send_dm from the publish to the all-messages subject to its return
DmSecondPublish(call, connected) ==
    IF connected
    THEN [call EXCEPT !.pc = "returned",
                      !.pubs = Append(@, <<AllSubject(NATS_NAMESPACE), Encode(call.msg[1])>>)]
    ELSE [call EXCEPT !.pc = "raised"]

\* send_dm is called: with self.nc set it runs up to its first publish, with
\* self.nc None it awaits connect
DmInvoke(a) ==
    /\ ncalls < MaxCalls
    /\ ncalls' = ncalls + 1
    /\ IF nc[Router] = 0
       THEN /\ dm' = Append(dm, DmCall(a[1], a[2], a[3]))
            /\ UNCHANGED <<subs, npub, clock>>
       ELSE \E t \in Readings :
               LET first == DmFirstPublish(DmCall(a[1], a[2], a[3]), t, Connected(Router))
               IN  /\ Published(first)
                   /\ clock' = IF first.pc = "raised" THEN clock ELSE t
                   /\ dm' = Append(dm, first)
                   /\ subs' = AfterPublish(subs, first)
    /\ UNCHANGED <<nc, open, history, messages, sm, handled, fed, errors, topics, trips>>

\* the connect awaited by send_dm ends (its result is not looked at), and the
\* call runs up to its first publish
DmConnect(j) ==
    /\ j \in 1..Len(dm)
    /\ dm[j].pc = "connect"
    /\ \E ok \in BOOLEAN, t \in Readings :
          /\ LazyConnect(Router, ok)
          /\ LET first == DmFirstPublish(dm[j], t, nc'[Router] \in open'[Router])
             IN  /\ Published(first)
                 /\ clock' = IF first.pc = "raised" THEN clock ELSE t
                 /\ dm' = [dm EXCEPT ![j] = first]
                 /\ subs' = AfterPublish(subs, first)
    /\ UNCHANGED <<history, messages, sm, handled, fed, errors, topics, trips, ncalls>>

\* send_dm resumes after its first publish: it appends the Message to
\* message_history, publishes it to the all-messages subject and returns it
DmAppend(j) ==
    /\ j \in 1..Len(dm)
    /\ dm[j].pc = "append"
    /\ history' = Append(history, dm[j].msg[1])
    /\ LET second == DmSecondPublish(dm[j], Connected(Router))
       IN  /\ Published(second)
           /\ dm' = [dm EXCEPT ![j] = second]
           /\ subs' = AfterPublish(subs, second)
    /\ UNCHANGED <<clock, nc, open, messages, sm, handled, fed, errors, topics, trips, ncalls>>

\* subscribe_all_messages: connects when self.nc is None, then subscribes
\* message_callback to the all-messages subject (or raises)
SubscribeAll ==
    /\ ncalls < MaxCalls
    /\ \E ok \in BOOLEAN :
          /\ ok => nc[Router] = 0
          /\ LazyConnect(Router, ok)
          /\ IF nc'[Router] \in open'[Router]
             THEN /\ subs' = [subs EXCEPT ![Router] = Append(@, Subscription(nc'[Router], AllSubject(NATS_NAMESPACE)))]
                  /\ ncalls' = ncalls + 1
             ELSE UNCHANGED <<subs, ncalls>>
    /\ UNCHANGED <<clock, npub, history, messages, dm, sm, handled, fed, errors, topics, trips>>

\* message_callback of subscribe_all_messages takes the next pending
\* payload: it decodes it, awaits the callback it was given and catches
\* what is raised
FeedCallback(i) ==
    /\ i \in 1..Len(subs[Router])
    /\ subs[Router][i].pending # <<>>
    /\ IF Decodes(Head(subs[Router][i].pending)[2])
       THEN /\ subs' = [subs EXCEPT ![Router][i].pending = Tail(@)]
            /\ fed' = Append(fed, Head(subs[Router][i].pending)[1])
            /\ UNCHANGED errors
       ELSE /\ subs' = Logged([subs EXCEPT ![Router][i].pending = Tail(@)], Router, i)
            /\ errors' = [errors EXCEPT ![Router] = Append(@, Head(subs[Router][i].pending)[1])]
            /\ UNCHANGED fed
    /\ UNCHANGED <<clock, nc, open, npub, history, messages, dm, sm, handled, topics, trips, ncalls>>

\* a filter that keeps one direction only
get_conversation_one_way(user1, user2) ==
    SelectSeq(history, LAMBDA msg : msg.from_user = user1 /\ msg.to_user = user2)

\* get_conversation
get_conversation(user1, user2) ==
    SelectSeq(history, LAMBDA msg : \/ (msg.from_user = user1 /\ msg.to_user = user2)
                                    \/ (msg.from_user = user2 /\ msg.to_user = user1))

(***************************************************************************)
(* MessageViewer.                                                          *)
(***************************************************************************)
\* start_viewing: connects when self.nc is None, then subscribes
\* message_callback to the three wildcard patterns (or raises)
StartViewing ==
    /\ ncalls < MaxCalls
    /\ \E ok \in BOOLEAN :
          /\ ok => nc[Viewer] = 0
          /\ LazyConnect(Viewer, ok)
          /\ IF nc'[Viewer] \in open'[Viewer]
             THEN /\ subs' = [subs EXCEPT ![Viewer] =
                                 @ \o << Subscription(nc'[Viewer], ViewMessagesPattern(NATS_NAMESPACE)),
                                         Subscription(nc'[Viewer], ViewInboxPattern(NATS_NAMESPACE)),
                                         Subscription(nc'[Viewer], ViewOutboxPattern(NATS_NAMESPACE)) >>]
                  /\ ncalls' = ncalls + 1
             ELSE UNCHANGED <<subs, ncalls>>
    /\ UNCHANGED <<clock, npub, history, messages, dm, sm, handled, fed, errors, topics, trips>>

\* message_callback of start_viewing takes the next pending payload: it
\* decodes it and appends the Message to self.messages, or logs the error
ViewCallback(i) ==
    /\ i \in 1..Len(subs[Viewer])
    /\ subs[Viewer][i].pending # <<>>
    /\ IF Decodes(Head(subs[Viewer][i].pending)[2])
       THEN /\ subs' = [subs EXCEPT ![Viewer][i].pending = Tail(@)]
            /\ messages' = Append(messages, from_dict(Head(subs[Viewer][i].pending)[2]))
            /\ UNCHANGED errors
       ELSE /\ subs' = Logged([subs EXCEPT ![Viewer][i].pending = Tail(@)], Viewer, i)
            /\ errors' = [errors EXCEPT ![Viewer] = Append(@, Head(subs[Viewer][i].pending)[1])]
            /\ UNCHANGED messages
    /\ UNCHANGED <<clock, nc, open, npub, history, dm, sm, handled, fed, topics, trips, ncalls>>

\* get_all_messages and get_agent_messages
get_all_messages == messages

\* a filter on the sender only
get_agent_messages_from_only(agent_name) ==
    SelectSeq(messages, LAMBDA msg : msg.from_user = AGENT_PREFIX \o agent_name)

get_agent_messages(agent_name) ==
    SelectSeq(messages, LAMBDA msg : \/ msg.from_user = AGENT_PREFIX \o agent_name
                                     \/ msg.to_user = AGENT_PREFIX \o agent_name)

(***************************************************************************)
(* The subject scheme on its own: the subjects the code builds for         *)
(* namespaces (NATS_NAMESPACE is read from the environment) and            *)
(* identifiers of any spelling.                                            *)
(***************************************************************************)
Namespaces ==
    {NATS_NAMESPACE, <<"n">>, <<"n",".","a","g","e","n","t","s",".","x">>}

\* agent names an AgentMessageQueue is constructed with, or send_dm is given
AgentIds ==
    {roy, sylvia, <<"y">>, <<"x",".","a","g","e","n","t","s",".","y">>, AGENT_PREFIX \o <<"x">>}

\* human identities: strings without the agent prefix
HumanIds ==
    {alice, <<"a","l","i","c","e","@","e","x","a","m","p","l","e",".","c","o","m">>, <<"y">>}

\* the subjects kept at a time
MaxTopics == 2

Topic(kind, ns, id, subject) == [kind |-> kind, ns |-> ns, id |-> id, subject |-> subject]

Built(t) ==
    /\ Cardinality(topics) < MaxTopics
    /\ topics' = topics \cup {t}
    /\ UNCHANGED <<clock, nc, open, subs, npub, history, messages, dm, sm, handled, fed, errors, trips, ncalls>>

\* AgentMessageQueue.__init__ builds the inbox and outbox subjects of agent_name
BuildInbox(ns, agent_name) == Built(Topic("inbox", ns, agent_name, InboxSubject(ns, agent_name)))

BuildOutbox(ns, agent_name) == Built(Topic("outbox", ns, agent_name, OutboxSubject(ns, agent_name)))

\* send_dm builds the all-messages subject
BuildAll(ns) == Built(Topic("all", ns, <<>>, AllSubject(ns)))

\* send_message builds the subject of a human
BuildDm(ns, user) == Built(Topic("dm", ns, user, DmSubject(ns, user)))

\* send_message resolves the destination of to_user
ResolveDest(ns, to_user) == Built(Topic("dest", ns, to_user, DestSubject(ns, to_user)))

SchemeNext ==
    \/ \E ns \in Namespaces, a \in AgentIds : BuildInbox(ns, a)
    \/ \E ns \in Namespaces, a \in AgentIds : BuildOutbox(ns, a)
    \/ \E ns \in Namespaces : BuildAll(ns)
    \/ \E ns \in Namespaces, h \in HumanIds : BuildDm(ns, h)
    \/ \E ns \in Namespaces, a \in AgentIds : ResolveDest(ns, AGENT_PREFIX \o a)
    \/ \E ns \in Namespaces, h \in HumanIds : ResolveDest(ns, h)

SchemeSpec == Init /\ [][SchemeNext]_vars

(***************************************************************************)
(* The codec on its own: Messages of any content are encoded as            *)
(* send_message and send_dm encode them (json.dumps(message.to_dict())     *)
(* .encode()) and decoded as the callbacks decode them                     *)
(* (Message.from_dict(json.loads(msg.data.decode())))).                    *)
(***************************************************************************)
\* round trips made in one behaviour
MaxTrips == 2

\* contents: plain, empty, with a quote, a backslash, both, a line feed, a
\* backslash before an n, and the text null
Contents ==
    {hi, <<>>, <<"\"">>, <<"\\">>, <<"a", "\\", "\"", "b">>, <<"a", "\n", "b">>, <<"\\", "n">>,
     <<"n","u","l","l">>}

\* thread ids: absent, present, and the text null
ThreadIds == {None, <<"t">>, <<"n","u","l","l">>}

MessageTypes == {DefaultMessageType, <<"b","r","o","a","d","c","a","s","t">>}

Envelopes ==
    {Message(MsgId(0), AGENT_PREFIX \o roy, alice, c, IsoFormat(0), mt, th) :
        c \in Contents, mt \in MessageTypes, th \in ThreadIds}

\* a Message is encoded and the payload decoded
RoundTrip(m) ==
    /\ Len(trips) < MaxTrips
    /\ LET payload == Encode(m)
       IN  trips' = Append(trips, [message |-> m, decodes |-> Decodes(payload), decoded |-> from_dict(payload)])
    /\ UNCHANGED <<clock, nc, open, subs, npub, history, messages, dm, sm, handled, fed, errors, topics, ncalls>>

CodecNext == \E m \in Envelopes : RoundTrip(m)

CodecSpec == Init /\ [][CodecNext]_vars

(***************************************************************************)
(* The specification.                                                      *)
(***************************************************************************)
\* the subscriptions one component can hold within the bounds
SubIndex == 1..(3 * MaxCalls)

Next ==
    \/ \E c \in Lossy : \E k \in 1..MaxCalls : ConnLost(c, k)
    \/ \E r \in RawPublishes : PublishRaw(r)
    \/ \E c \in Comps : Connect(c)
    \/ \E p \in Personas : StartListening(p)
    \/ \E p \in Personas : Close(p)
    \/ \E a \in SendArgs : SmInvoke(a)
    \/ \E j \in 1..MaxPub : SmConnect(j)
    \/ \E j \in 1..MaxPub : SmOutbox(j)
    \/ \E p \in Personas : \E i \in SubIndex : InboxCallback(p, i)
    \/ \E p \in Personas : \E i \in SubIndex : InboxCallbackOutbox(p, i)
    \/ \E a \in DmArgs : DmInvoke(a)
    \/ \E j \in 1..MaxCalls : DmConnect(j)
    \/ \E j \in 1..MaxCalls : DmAppend(j)
    \/ SubscribeAll
    \/ \E i \in SubIndex : FeedCallback(i)
    \/ StartViewing
    \/ \E i \in SubIndex : ViewCallback(i)

Spec == Init /\ [][Next]_vars

(***************************************************************************)
(* A processor whose start_listening was called twice: each call           *)
(* subscribes message_callback to the inbox subject, so roy has two        *)
(* subscriptions on its connection. The calls made from here on are        *)
(* counted anew.                                                           *)
(***************************************************************************)
FifoInit ==
    /\ clock = 0
    /\ nc = [c \in Comps |-> IF c = roy THEN 1 ELSE 0]
    /\ open = [c \in Comps |-> IF c = roy THEN {1} ELSE {}]
    /\ subs = [c \in Comps |-> IF c = roy
                                THEN <<Subscription(1, InboxSubject(NATS_NAMESPACE, roy)),
                                       Subscription(1, InboxSubject(NATS_NAMESPACE, roy))>>
                                ELSE <<>>]
    /\ npub = 0
    /\ history = <<>>
    /\ messages = <<>>
    /\ dm = <<>>
    /\ sm = <<>>
    /\ handled = [p \in Personas |-> <<>>]
    /\ fed = <<>>
    /\ errors = [c \in Comps |-> <<>>]
    /\ topics = {}
    /\ trips = <<>>
    /\ ncalls = 0

\* envelopes are sent to roy's inbox and roy's callbacks run
FifoNext ==
    \/ PublishRaw(<<InboxSubject(NATS_NAMESPACE, roy), NullSender>>)
    \/ DmInvoke(<<alice, roy, hi>>)
    \/ \E j \in 1..MaxCalls : DmConnect(j)
    \/ \E j \in 1..MaxCalls : DmAppend(j)
    \/ \E i \in 1..2 : InboxCallback(roy, i)
    \/ \E i \in 1..2 : InboxCallbackOutbox(roy, i)

FifoSpec == FifoInit /\ [][FifoNext]_vars

(***************************************************************************)
(* A processor whose start_listening (which connected, self.nc being None) *)
(* was followed by connect: connect assigns a second connection to self.nc *)
(* and leaves the first, with its subscription, open. The calls made from  *)
(* here on are counted anew.                                               *)
(***************************************************************************)
ReconnectInit ==
    /\ clock = 0
    /\ nc = [c \in Comps |-> IF c = roy THEN 2 ELSE 0]
    /\ open = [c \in Comps |-> IF c = roy THEN {1, 2} ELSE {}]
    /\ subs = [c \in Comps |-> IF c = roy
                                THEN <<Subscription(1, InboxSubject(NATS_NAMESPACE, roy))>>
                                ELSE <<>>]
    /\ npub = 0
    /\ history = <<>>
    /\ messages = <<>>
    /\ dm = <<>>
    /\ sm = <<>>
    /\ handled = [p \in Personas |-> <<>>]
    /\ fed = <<>>
    /\ errors = [c \in Comps |-> <<>>]
    /\ topics = {}
    /\ trips = <<>>
    /\ ncalls = 0

\* close() was called on p and p has not connected since: self.nc names a
\* closed connection
Closed(p) == nc[p] # 0 /\ ~Connected(p)

\* roy sends, roy is closed, and envelopes are published to roy's inbox once
\* it is closed
ReconnectNext ==
    \/ SmInvoke(<<roy, alice, hi, None>>)
    \/ \E j \in 1..MaxPub : SmOutbox(j)
    \/ Close(roy)
    \/ Closed(roy) /\ PublishRaw(<<InboxSubject(NATS_NAMESPACE, roy), NullSender>>)
    \/ Closed(roy) /\ \E a \in {d \in DmArgs : d[2] = roy} : DmInvoke(a)
    \/ \E j \in 1..MaxCalls : DmConnect(j)
    \/ \E j \in 1..MaxCalls : DmAppend(j)
    \/ InboxCallback(roy, 1)

ReconnectSpec == ReconnectInit /\ [][ReconnectNext]_vars

(***************************************************************************)
(* The claims.                                                             *)
(***************************************************************************)
\* C1: a send_dm call publishes its envelope once to the inbox subject of
\* to_agent and then once to the all-messages subject, and to no other
\* subject; a call that has returned has made both publishes; each published
\* envelope carries from_user, "agent_" + to_agent and content of the call.
C1_RoutingCorrect ==
    \A j \in 1..Len(dm) :
        LET call == dm[j]
            agents == <<"a","g","e","n","t","s">>
            inbox == NATS_NAMESPACE \o Dot \o agents \o Dot \o call.to_agent \o Dot \o <<"i","n","b","o","x">>
            all == NATS_NAMESPACE \o Dot \o <<"m","e","s","s","a","g","e","s">> \o Dot \o <<"a","l","l">>
        IN  /\ Len(call.pubs) <= 2
            /\ call.pc = "returned" => Len(call.pubs) = 2
            /\ Len(call.pubs) >= 1 => call.pubs[1][1] = inbox
            /\ Len(call.pubs) >= 2 => call.pubs[2][1] = all
            /\ \A k \in 1..Len(call.pubs) :
                  /\ Decodes(call.pubs[k][2])
                  /\ from_dict(call.pubs[k][2]).from_user = call.from_user
                  /\ from_dict(call.pubs[k][2]).to_user = AGENT_PREFIX \o call.to_agent
                  /\ from_dict(call.pubs[k][2]).content = call.content

C1_Witness == \E j \in 1..Len(dm) : dm[j].pc = "returned"

\* the publishes made by the send_message calls
RECURSIVE SmPublishes(_)
SmPublishes(j) == IF j = 0 THEN 0 ELSE Len(sm[j].pubs) + SmPublishes(j - 1)

\* C2: when the only traffic is one envelope that a send_message called from
\* outside put into the inbox of another agent, the chain of replies of the
\* default handlers ends by itself: once the publishes the model allows are
\* used up, no inbox holds an envelope that is still to be answered.
C2_ReplyChainEnds ==
    (/\ Len(dm) = 0
     /\ Cardinality({j \in 1..Len(sm) : sm[j].via = 0}) = 1
     /\ SmPublishes(Len(sm)) = npub
     /\ npub = MaxPub)
    => \A p \in Personas : \A i \in 1..Len(subs[p]) : subs[p][i].pending = <<>>

\* the publishes made by the send_dm calls
RECURSIVE DmPublishes(_)
DmPublishes(j) == IF j = 0 THEN 0 ELSE Len(dm[j].pubs) + DmPublishes(j - 1)

\* C3: when all the traffic was produced by send_dm and send_message calls,
\* MessageViewer.messages holds at most one envelope of any id.
C3_AccumulatorIdsDistinct ==
    npub = SmPublishes(Len(sm)) + DmPublishes(Len(dm)) =>
        \A i, j \in 1..Len(get_all_messages) :
            i # j => get_all_messages[i].id # get_all_messages[j].id

\* C4: the message_handler of an agent is invoked at most once for an
\* envelope that was published once.
C4_HandlerAtMostOnce ==
    \A p \in Personas : \A i, j \in 1..Len(handled[p]) :
        i # j => handled[p][i] # handled[p][j]

\* the head of the pending queue of subscription i of component c
PendingHead(c, i) == Head(subs[c][i].pending)

\* a step in which the callback of subscription i of c takes the head of its
\* pending queue: no connection is made or closed, and the publish at the head
\* is no longer pending at place i (publish numbers in a queue are distinct)
Takes(c, i) ==
    /\ i \in 1..Len(subs[c])
    /\ subs[c][i].pending # <<>>
    /\ nc' = nc /\ open' = open
    /\ Len(subs'[c]) >= i =>
          \A k \in 1..Len(subs'[c][i].pending) : subs'[c][i].pending[k][1] # PendingHead(c, i)[1]

\* a payload that is no JSON object or lacks a required field of Message
Malformed(payload) ==
    \/ payload.kind # "object"
    \/ \E f \in {"id", "from_user", "to_user", "content", "timestamp"} :
          \A k \in 1..Len(payload.members) : payload.members[k][1] # f

\* C5: a callback that takes a malformed payload drops it: no handler or
\* callback is invoked, nothing is appended to the accumulator, nothing is
\* published, and its subscription is kept with the rest of its queue; a
\* well-formed payload taken by a listener that has dropped one is processed:
\* the Viewer appends it, the Router hands it to its callback, the agent
\* invokes its handler.
C5_MalformedDropped ==
    [][\A c \in Comps : \A i \in SubIndex :
          Takes(c, i) =>
             /\ Malformed(PendingHead(c, i)[2]) =>
                   /\ handled' = handled /\ fed' = fed /\ messages' = messages
                   /\ sm' = sm /\ npub' = npub
                   /\ subs' = [subs EXCEPT ![c][i].pending = Tail(@)]
             /\ (~Malformed(PendingHead(c, i)[2]) /\ errors[c] # <<>>) =>
                   /\ c = Viewer => messages' = Append(messages, from_dict(PendingHead(c, i)[2]))
                   /\ c = Router => fed' = Append(fed, PendingHead(c, i)[1])
                   /\ c \in Personas => handled'[c] = Append(handled[c], PendingHead(c, i)[1])]_vars

\* the publishes in a sequence of publish numbers
Range(q) == {q[k] : k \in 1..Len(q)}

\* an agent has dropped a malformed payload and its handler was invoked for
\* a well-formed payload published later
C5_Witness ==
    \E p \in Personas : \E m \in Range(errors[p]) \ Range(handled[p]) :
        \E n \in Range(handled[p]) : n > m

\* the same for the Router and its callback
C5_RouterWitness == \E m \in Range(errors[Router]) : \E n \in Range(fed) : n > m

\* the same for the Viewer: the first publish was dropped, and both copies of
\* a later envelope were appended
C5_ViewerWitness == 1 \in Range(errors[Viewer]) /\ Len(messages) = 2

\* C6: a step in which the handler of agent p fails for an envelope (the
\* handler was invoked for it and the callback logged an error for it) keeps
\* every subscription of p, with the callback that failed idle again; and
\* whenever an inbox callback of p takes a well-formed envelope, the handler
\* is invoked for it.
C6_HandlerFailureCaught ==
    [][\A p \in Personas :
          /\ (\E n \in Range(handled'[p]) : errors'[p] = Append(errors[p], n)) =>
                /\ Len(subs'[p]) = Len(subs[p])
                /\ \A i \in 1..Len(subs[p]) :
                      /\ subs'[p][i].conn = subs[p][i].conn
                      /\ subs'[p][i].pattern = subs[p][i].pattern
                      /\ subs'[p][i].busy # subs[p][i].busy => subs'[p][i].busy = 0
          /\ \A i \in SubIndex :
                (Takes(p, i) /\ ~Malformed(PendingHead(p, i)[2])) =>
                    handled'[p] = Append(handled[p], PendingHead(p, i)[1])]_vars

\* the handler of an agent failed for an envelope, and was invoked for an
\* envelope published later
C6_Witness ==
    \E p \in Personas : \E n \in Range(errors[p]) \cap Range(handled[p]) :
        \E k \in 1..Len(handled[p]) :
            /\ handled[p][k] > n
            /\ \E l \in 1..(k - 1) : handled[p][l] = n

\* C7: every send_message call that has ended has made two publishes of one
\* envelope from "agent_" + agent_name: to the destination subject, then to
\* the outbox subject of the agent.
C7_TwoPublishes ==
    \A j \in 1..Len(sm) :
        sm[j].pc \in {"returned", "raised", "cancelled"} =>
            /\ Len(sm[j].pubs) = 2
            /\ sm[j].pubs[2][1] = OutboxSubject(NATS_NAMESPACE, sm[j].agent)
            /\ from_dict(sm[j].pubs[1][2]).id = from_dict(sm[j].pubs[2][2]).id
            /\ from_dict(sm[j].pubs[1][2]).from_user = AGENT_PREFIX \o sm[j].agent

\* C8: the subject send_message resolves for "agent_" + A is the inbox
\* subject AgentMessageQueue(A) subscribes to, and the subject it resolves for
\* a human identity H is the dm subject of H and no inbox subject.
C8_AddressResolution ==
    \A x \in topics :
        x.kind = "dest" =>
           /\ \A a \in AgentIds :
                 x.id = AGENT_PREFIX \o a => x.subject = InboxSubject(x.ns, a)
           /\ x.id \in HumanIds =>
                 /\ x.subject = DmSubject(x.ns, x.id)
                 /\ \A a \in AgentIds : x.subject # InboxSubject(x.ns, a)

\* C9: two subjects built for different (kind, namespace, id) are different
\* strings.
C9_SchemeInjective ==
    \A x, y \in topics :
        (/\ x.kind \in {"inbox", "outbox", "dm", "all"}
         /\ y.kind \in {"inbox", "outbox", "dm", "all"}
         /\ x.subject = y.subject) => x = y

\* the identities get_conversation is asked about
Identities == {alice, roy, AGENT_PREFIX \o roy, AGENT_PREFIX \o sylvia}

\* C10: get_conversation(X, Y) and get_conversation(Y, X) are the same
\* sequence: the Messages of message_history whose {from_user, to_user} is
\* {X, Y}, all of them, in the order of message_history.
C10_ConversationSymmetric ==
    \A x, y \in Identities :
        LET conv == get_conversation(x, y)
            idx == {k \in 1..Len(history) : {history[k].from_user, history[k].to_user} = {x, y}}
        IN  /\ conv = get_conversation(y, x)
            /\ Len(conv) = Cardinality(idx)
            /\ \A k \in idx : conv[Cardinality({l \in idx : l <= k})] = history[k]

\* the history holds a conversation in both directions and a Message of
\* another conversation
C10_Witness ==
    LET conv == get_conversation(AGENT_PREFIX \o roy, AGENT_PREFIX \o sylvia)
    IN  /\ Len(conv) = 2
        /\ conv[1].from_user # conv[2].from_user
        /\ Len(history) > 2

\* C11: when every send_dm call so far was made with the same from_user H
\* and to_agent A and has returned, get_conversation(H, A) is the sequence of
\* the Messages of these calls, in call order.
C11_ConversationOfSends ==
    (/\ dm # <<>>
     /\ \A j \in 1..Len(dm) : /\ dm[j].pc = "returned"
                              /\ dm[j].from_user = dm[1].from_user
                              /\ dm[j].to_agent = dm[1].to_agent)
    => get_conversation(dm[1].from_user, dm[1].to_agent) = [j \in 1..Len(dm) |-> dm[j].msg[1]]

\* a send_dm call that has passed its message_history.append: it made its
\* first publish and has ended
Appended(call) == call.pubs # <<>> /\ call.pc \in {"returned", "raised"}

\* the Messages of the send_dm calls that have appended, in call order
RECURSIVE AppendedInCallOrder(_)
AppendedInCallOrder(j) ==
    IF j = 0 THEN <<>>
    ELSE AppendedInCallOrder(j - 1) \o (IF Appended(dm[j]) THEN dm[j].msg ELSE <<>>)

\* C12: message_history always holds the Messages of the send_dm calls that
\* have appended, in the order the calls were invoked (and so no Message is
\* ever removed, reordered or altered).
C12_HistoryInCallOrder == history = AppendedInCallOrder(Len(dm))

\* the part of C12 about single steps: a step leaves message_history
\* unchanged or appends the Message of one send_dm call at its end
C12_AppendOnly ==
    [][\/ history' = history
       \/ \E j \in 1..Len(dm) : dm[j].msg # <<>> /\ history' = Append(history, dm[j].msg[1])]_vars

\* start_viewing has completed
Viewing == subs[Viewer] # <<>>

\* the Viewer and, once its start_viewing has completed, the Router without
\* the agents: send_dm of the Router (it connects by itself), the payloads
\* other clients publish to the all-messages subject and the loss of the
\* connection of the Router
ViewNext ==
    \/ ~Viewing /\ StartViewing
    \/ Viewing /\ \E k \in 1..MaxCalls : ConnLost(Router, k)
    \/ Viewing /\ \E r \in {q \in RawPublishes : q[1] = AllSubject(NATS_NAMESPACE)} : PublishRaw(r)
    \/ Viewing /\ \E a \in DmArgs : DmInvoke(a)
    \/ \E j \in 1..MaxCalls : DmConnect(j)
    \/ \E j \in 1..MaxCalls : DmAppend(j)
    \/ \E i \in 1..3 : ViewCallback(i)

\* the event loop of the Viewer runs a callback of its three subscriptions
\* that has a pending payload
ViewSpec == Init /\ [][ViewNext]_vars /\ WF_vars(\E i \in 1..3 : ViewCallback(i))

\* the j-th send_dm call has published its envelope
Sent(j) == Len(dm) >= j /\ dm[j].pubs # <<>>

\* the accumulator holds an envelope to "agent_" + to_agent with the content
\* of the j-th send_dm call
Seen(j) ==
    \E k \in 1..Len(get_all_messages) :
        /\ Len(dm) >= j
        /\ get_all_messages[k].to_user = AGENT_PREFIX \o dm[j].to_agent
        /\ get_all_messages[k].content = dm[j].content

\* a subscription of the Viewer holds the envelope the j-th send_dm call
\* published
Pending(j) ==
    \E i \in 1..Len(subs[Viewer]) : \E k \in 1..Len(subs[Viewer][i].pending) :
        Len(dm) >= j /\ dm[j].pubs # <<>> /\ subs[Viewer][i].pending[k][2] = dm[j].pubs[1][2]

\* C13: when start_viewing has completed before a send_dm call publishes,
\* the bus hands the published envelope to the Viewer, and the accumulator of
\* the Viewer eventually holds an envelope with to_user = "agent_" + to_agent
\* and the content of the call; start_viewing stays completed; and the
\* Message a send_dm call returns has that to_user.
C13_ViewerEventuallySees ==
    /\ [][Viewing => Viewing' /\ \A j \in 1..MaxCalls : (~Sent(j) /\ Sent(j)') => Pending(j)']_vars
    /\ \A j \in 1..MaxCalls : Pending(j) ~> Seen(j)
    /\ [](\A j \in 1..Len(dm) :
             dm[j].pc = "returned" => dm[j].msg[1].to_user = AGENT_PREFIX \o dm[j].to_agent)

\* the Viewer was viewing, a send_dm call has returned and the accumulator
\* holds its envelope
C13_Witness ==
    /\ Viewing
    /\ \E j \in 1..Len(dm) : dm[j].pc = "returned" /\ Seen(j)

\* the text "<P> received your message"
ReceivedText(p) ==
    p \o <<" ","r","e","c","e","i","v","e","d"," ","y","o","u","r"," ","m","e","s","s","a","g","e">>

\* text s holds text a and, right after a and the three characters ": '",
\* text b
HoldsThen(s, a, b) ==
    \E k \in 0..Len(s) :
        /\ Len(s) >= k + Len(a) + 3 + Len(b)
        /\ SubSeq(s, k + 1, k + Len(a)) = a
        /\ SubSeq(s, k + Len(a) + 1, k + Len(a) + 3) = <<":", " ", "'">>
        /\ SubSeq(s, k + Len(a) + 4, k + Len(a) + 3 + Len(b)) = b

\* the first 50 characters of a text
First50(s) == [k \in 1..(IF Len(s) > 50 THEN 50 ELSE Len(s)) |-> s[k]]

C15_AgentMessagesFilter ==
    \A a \in {roy, sylvia, alice} :
        LET res == get_agent_messages(a)
            idx == {k \in 1..Len(messages) : AGENT_PREFIX \o a \in {messages[k].from_user, messages[k].to_user}}
        IN  /\ Len(res) = Cardinality(idx)
            /\ \A k \in idx : res[Cardinality({l \in idx : l <= k})] = messages[k]
            /\ get_all_messages = messages

\* the accumulator holds a Message sent to agent_sylvia by another sender,
\* which get_agent_messages(sylvia) returns, and a Message it leaves out
C15_Witness ==
    LET res == get_agent_messages(sylvia)
    IN  /\ \E k \in 1..Len(res) : res[k].to_user = AGENT_PREFIX \o sylvia /\ res[k].from_user # AGENT_PREFIX \o sylvia
        /\ Len(res) < Len(messages)

\* C16: a Message that is encoded and decoded comes back equal, field for
\* field: the payload decodes, and Message.from_dict of it has the seven
\* fields of the Message that was encoded, thread_id None included.
C16_RoundTrip ==
    \A k \in 1..Len(trips) :
        /\ trips[k].decodes
        /\ \A i \in 1..Len(MessageFields) :
              trips[k].decoded[MessageFields[i]] = trips[k].message[MessageFields[i]]
        /\ trips[k].decoded = trips[k].message

\* a Message whose content has a backslash and a quote and one whose
\* thread_id is None have made the round trip
C16_Witness ==
    /\ \E k \in 1..Len(trips) : trips[k].message.content = <<"a", "\\", "\"", "b">>
    /\ \E k \in 1..Len(trips) : trips[k].message.thread_id = None

\* C17: close() of a processor that has no connection (self.nc is None) or
\* whose connection is closed already changes nothing; close() of a connected
\* processor leaves it with self.nc as it was and the connection closed, the
\* state in which a further close() changes nothing.
C17_CloseIdempotent ==
    [][\A p \in Personas :
          /\ (~Connected(p) /\ Close(p)) => UNCHANGED vars
          /\ (Connected(p) /\ Close(p)) =>
                /\ ~Connected(p)' /\ nc' = nc
                /\ \A i \in 1..Len(subs'[p]) : subs'[p][i].conn # nc[p]]_vars

\* a processor was closed (a further close finds self.nc set and the
\* connection closed) and another never connected
C17_Witness ==
    \E p, q \in Personas : /\ nc[p] # 0 /\ nc[p] \notin open[p]
                            /\ nc[q] = 0

\* the Messages constructed so far, by the send_message and the send_dm calls
Constructed == {<<"sm", j>> : j \in {k \in 1..Len(sm) : sm[k].msg # <<>>}}
               \cup {<<"dm", j>> : j \in {k \in 1..Len(dm) : dm[k].msg # <<>>}}

MessageOf(x) == IF x[1] = "sm" THEN sm[x[2]].msg[1] ELSE dm[x[2]].msg[1]

\* C18: the Messages constructed by two distinct send_message or send_dm
\* calls have different ids.
C18_IdsNeverReused ==
    \A x, y \in Constructed : x # y => MessageOf(x).id # MessageOf(y).id

\* the subscriptions of p whose callback is suspended in its handler
Running(p) == {i \in 1..Len(subs[p]) : subs[p][i].busy # 0}

\* C19: the message_handler of a processor is invoked for the envelopes of
\* its inbox subject in the order of their publishes (an envelope handled
\* later was not published before one handled earlier), and no two
\* invocations for different envelopes are under way at the same time.
C19_SingleTopicFifo ==
    \A p \in Personas :
        /\ \A i, j \in 1..Len(handled[p]) : i < j => handled[p][i] <= handled[p][j]
        /\ \A i, j \in Running(p) : sm[subs[p][i].busy].via = sm[subs[p][j].busy].via

\* close() was called on p when it was connected: a connection p made is no
\* longer open (only close() ends the connection of a processor)
WasClosed(p) == \E k \in 1..nc[p] : k \notin open[p]

\* C20: Closed is terminal: a processor on which close() was called when it
\* was connected is never connected again and has no subscription, so that
\* it neither listens nor publishes.
C20_ClosedIsTerminal ==
    \A p \in Personas : WasClosed(p) => ~Connected(p) /\ subs[p] = <<>>

\* C21: the message_handler of a processor that is closed is not invoked;
\* under ReconnectSpec, where envelopes reach the inbox of roy only once it
\* is closed, every invocation is one for an envelope published after
\* close().
C21_NoHandlerAfterClose ==
    [][\A p \in Personas : Closed(p) => handled'[p] = handled[p]]_vars

\* close() of a processor takes no delivery from another component: the
\* subscriptions of the others keep their queues, the history and the
\* accumulator keep their envelopes
C21_PublishesKept ==
    [][\A p \in Personas :
          (Connected(p) /\ ~Connected(p)' /\ nc' = nc) =>
             /\ \A c \in Comps \ {p} : subs'[c] = subs[c]
             /\ messages' = messages /\ history' = history /\ npub' = npub]_vars

\* the send_dm calls that have returned their Message
Returned == {j \in 1..Len(dm) : dm[j].pc = "returned"}

\* C22: a send_dm call that raised has left message_history as it was: the
\* history has one Message for each call that returned, and every Message in
\* it is the Message of a call that returned after publishing it to the
\* inbox subject of its agent and to the all-messages subject.
C22_FailedSendLeavesHistory ==
    /\ Len(history) = Cardinality(Returned)
    /\ \A k \in 1..Len(history) :
          \E j \in Returned :
              /\ dm[j].msg = <<history[k]>>
              /\ Len(dm[j].pubs) = 2
              /\ dm[j].pubs[1][1] = InboxSubject(NATS_NAMESPACE, dm[j].to_agent)
              /\ dm[j].pubs[2][1] = AllSubject(NATS_NAMESPACE)

====
